---- MODULE Spec2Model ----
(***************************************************************************)
(* Model of scripts/migrate_personas.py: the batch migration of persona    *)
(* directories (PERSONA.md + AI_START_HERE.md) to SKILL.md.                *)
(*                                                                         *)
(* A text is a sequence of lines.  A line is a record giving what the      *)
(* code looks at: how the stripped line starts (kind), the number of '#'   *)
(* of a heading (level) and the number of characters that remain after     *)
(* line.strip() (for a heading: after lstrip('#').strip()).  Every text is *)
(* newline-terminated.                                                     *)
(*                                                                         *)
(* A file is a slot: <<>> when the path does not exist, <<c>> when it is a *)
(* regular file of content c.                                              *)
(***************************************************************************)
EXTENDS Integers, Sequences, FiniteSets, TLC

VARIABLES
    rootExists,      \* personas/ exists
    orgKind,         \* first-level entries of personas/: "absent" | "file" | "dir"
    tree,            \* second-level entries: [Paths -> entry]
    pc,              \* position of the single thread of control
    run,             \* number of the current invocation of the script
    todo,            \* sorted(persona_dirs) of main
    idx,             \* number of directories of todo already handed to create_skill_md
    cur,             \* persona_dir of the running create_skill_md call
    success_count,   \* success_count of main
    ret,             \* return value of the last create_skill_md call
    mainRet,         \* return value of main: <<>> until it returns
    summary,         \* the final "<success>/<total>" line: <<>> until printed
    pending,         \* additional_files not yet moved
    content,         \* persona_content read by create_skill_md (input of the extractor)
    metadata,        \* metadata returned by extract_metadata_from_persona
    warned,          \* directories reported "No PERSONA.md found" in this run
    written,         \* history: directories whose SKILL.md was written in this run
    visited,         \* history: directories handed to create_skill_md in this run
    succeeded,       \* history: directories for which create_skill_md returned True in this run
    migratedBefore,  \* history: directories an earlier run migrated successfully
    events,          \* history: the filesystem mutations of this run, in order
    tree0            \* history: tree at the start of this run

vars == <<rootExists, orgKind, tree, pc, run, todo, idx, cur, success_count, ret,
          mainRet, summary, pending, content, metadata, warned, written, visited,
          succeeded, migratedBefore, events, tree0>>

-----------------------------------------------------------------------------
(* Bounds *)

MaxRuns == 2

MaxLines == 4

-----------------------------------------------------------------------------
(* Texts *)

MaxDescription == 500

Line(kind, level, len) == [kind |-> kind, level |-> level, len |-> len]

BlankLine == Line("blank", 0, 0)

\* '---' alone on its line
FenceLine == Line("fence", 0, 3)

\* not line (after line.strip())
IsBlank(l) == l.kind = "blank"

\* line.startswith('#')
IsHeading(l) == l.kind = "heading"

\* line.startswith('-')
IsDash(l) == l.kind \in {"dash", "fence"}

Min(a, b) == IF a <= b THEN a ELSE b

Range(s) == {s[i] : i \in 1..Len(s)}

Exists(slot) == slot # <<>>

RECURSIVE DropLeadingBlank(_)
DropLeadingBlank(lines) ==
    IF lines # <<>> /\ IsBlank(Head(lines)) THEN DropLeadingBlank(Tail(lines)) ELSE lines

RECURSIVE DropTrailingBlank(_)
DropTrailingBlank(lines) ==
    IF lines # <<>> /\ IsBlank(lines[Len(lines)])
    THEN DropTrailingBlank(SubSeq(lines, 1, Len(lines) - 1))
    ELSE lines

\* text.strip() seen line by line: the blank lines at both ends go
StripText(lines) == DropTrailingBlank(DropLeadingBlank(lines))

\* ' '.join(desc_lines): the characters of the lines and one space between two
RECURSIVE JoinLen(_, _)
JoinLen(lines, parts) ==
    IF parts = <<>> THEN 0
    ELSE lines[Head(parts)].len
         + (IF Len(parts) > 1 THEN 1 ELSE 0)
         + JoinLen(lines, Tail(parts))

\* role is falsy: not yet set, or set from a heading with no text ('')
RoleUnset(lines, role) == role = <<>> \/ lines[role[1]].len = 0

\* The for loop over the lines.  desc holds the indices (in lines) of the
\* lines appended to desc_lines.
RECURSIVE ScanLines(_, _, _, _, _)
ScanLines(lines, i, desc, in_header, role) ==
    IF i > Len(lines) THEN [desc |-> desc, role |-> role]
    ELSE LET line == lines[i] IN
         IF IsBlank(line)
         THEN IF desc # <<>>
              THEN [desc |-> desc, role |-> role]
              ELSE ScanLines(lines, i + 1, desc, in_header, role)
         ELSE IF IsHeading(line)
         THEN ScanLines(lines, i + 1, desc, TRUE,
                        IF RoleUnset(lines, role) THEN <<i>> ELSE role)
         ELSE IF in_header
         THEN ScanLines(lines, i + 1, Append(desc, i), FALSE, role)
         ELSE IF ~in_header /\ ~IsHeading(line) /\ ~IsDash(line)
         THEN ScanLines(lines, i + 1, Append(desc, i), in_header, role)
         ELSE [desc |-> desc, role |-> role]

\* The description: the lines it is joined from, and its length after [:500]
Description(lines, desc) ==
    [parts |-> desc, length |-> Min(JoinLen(lines, desc), MaxDescription)]

InitialMetadataRenamed(persona_name) ==
    [name |-> "persona", description |-> [parts |-> <<>>, length |-> 0], role |-> <<>>]

InitialMetadata(persona_name) ==
    [name |-> persona_name, description |-> [parts |-> <<>>, length |-> 0], role |-> <<>>]

\* The autonomy_level and specialties searches read the characters of the
\* text, which a line record does not hold; the record carries name,
\* description and role.
extract_metadata_from_persona(text, persona_name) ==
    LET lines == StripText(text)
        scan  == ScanLines(lines, 1, <<>>, TRUE, <<>>)
    IN  [InitialMetadata(persona_name) EXCEPT
            !.description = Description(lines, scan.desc),
            !.role = scan.role]

\* re.sub(r'^#[^#\n]+\n+', '', ai_start_content.strip())
StripFirstHeader(text) ==
    LET lines == StripText(text) IN
    IF Len(lines) > 1 /\ IsHeading(lines[1]) /\ lines[1].level = 1 /\ lines[1].len > 0
    THEN DropLeadingBlank(Tail(lines))
    ELSE lines

\* re.sub(r'^---\n.*?\n---\n', '', persona_content, flags=re.DOTALL)
StripFrontMatter(lines) ==
    IF lines # <<>> /\ lines[1] = FenceLine
       /\ \E j \in 3..Len(lines) : lines[j] = FenceLine
    THEN LET j == CHOOSE k \in 3..Len(lines) :
                      /\ lines[k] = FenceLine
                      /\ \A m \in 3..(k - 1) : lines[m] # FenceLine
         IN  SubSeq(lines, j + 1, Len(lines))
    ELSE lines

\* The frontmatter and the body of SKILL.md
skill_md_content(meta, persona_text, ai_text) ==
    LET quick == IF ai_text # <<>> THEN StripFirstHeader(ai_text) ELSE <<>>
        parts == (IF quick # <<>> THEN <<[part |-> "Quick Start", text |-> quick]>> ELSE <<>>)
                 \o (IF persona_text # <<>>
                     THEN <<[part |-> "persona",
                             text |-> StripText(StripFrontMatter(persona_text))]>>
                     ELSE <<>>)
    IN  [frontmatter |-> [name |-> meta.name,
                          description |-> meta.description,
                          role |-> meta.role,
                          author |-> "loom",
                          version |-> "1.0",
                          license |-> "Proprietary",
                          compatibility |-> "Designed for Loom"],
         body |-> parts]

-----------------------------------------------------------------------------
(* The filesystem under personas/ *)

\* First-level names, in sorted order: an organization, a plain file, the
\* reserved organization and a second organization.
OrgNames == <<"acme", "readme.md", "templates", "zeta">>

\* Second-level names, in sorted order.
PersonaNames == <<"analyst", "builder">>

AuxNames == {"extra.txt", "notes.txt"}

Orgs == 1..Len(OrgNames)

Paths == Orgs \X (1..Len(PersonaNames))

NoPath == <<0, 0>>

NoAux == [n \in AuxNames |-> <<>>]

Entry(kind, persona, ai, skill, aux, refsKind, refs) ==
    [kind |-> kind, persona |-> persona, ai |-> ai, skill |-> skill,
     aux |-> aux, refsKind |-> refsKind, refs |-> refs]

AbsentEntry == Entry("absent", <<>>, <<>>, <<>>, NoAux, "absent", NoAux)

FileEntry == Entry("file", <<>>, <<>>, <<>>, NoAux, "absent", NoAux)

\* PERSONA.md of the documented example: a heading, a paragraph, the
\* autonomy line and the specialties line.
PersonaText ==
    <<Line("heading", 1, 12), Line("text", 0, 16), BlankLine,
      Line("text", 0, 20), BlankLine, Line("text", 0, 32)>>

\* AI_START_HERE.md: a title, a blank line and a paragraph.
AiStartText == <<Line("heading", 1, 13), BlankLine, Line("text", 0, 24)>>

\* A SKILL.md that was there before the run.
StaleSkill == skill_md_content(InitialMetadata("stale"), <<>>, <<>>)

\* The auxiliary files a persona directory starts with, and its references
\* entry: absent, a regular file, or a directory that may already hold a
\* notes.txt.
AuxShapes ==
    { [n \in AuxNames |-> IF n \in S THEN <<"fresh">> ELSE <<>>] :
        S \in {{}, {"notes.txt"}, {"notes.txt", "extra.txt"}} }

RefShapes ==
    { [kind |-> "absent", files |-> NoAux],
      [kind |-> "file", files |-> NoAux],
      [kind |-> "dir", files |-> NoAux],
      [kind |-> "dir", files |-> [NoAux EXCEPT !["notes.txt"] = <<"old">>]] }

PersonaDirs ==
    { Entry("dir", p, a, s, x, r.kind, r.files) :
        p \in {<<>>, <<PersonaText>>}, a \in {<<>>, <<AiStartText>>},
        s \in {<<>>, <<StaleSkill>>}, x \in AuxShapes, r \in RefShapes }

\* A directory in the legacy layout with one auxiliary file
FullDir ==
    Entry("dir", <<PersonaText>>, <<AiStartText>>, <<>>,
          [NoAux EXCEPT !["notes.txt"] = <<"fresh">>], "absent", NoAux)

PlainDir == Entry("dir", <<PersonaText>>, <<>>, <<>>, NoAux, "absent", NoAux)

OrgOf(p) == p[1]

BaseName(p) == PersonaNames[p[2]]

\* Path comparison: by the parts of the path, the names being in sorted order
PathLess(a, b) == a[1] < b[1] \/ (a[1] = b[1] /\ a[2] < b[2])

RECURSIVE Insert(_, _)
Insert(s, x) ==
    IF s = <<>> THEN <<x>>
    ELSE IF PathLess(x, Head(s)) THEN <<x>> \o s
    ELSE <<Head(s)>> \o Insert(Tail(s), x)

RECURSIVE InsertionSort(_)
InsertionSort(s) == IF s = <<>> THEN <<>> ELSE Insert(InsertionSort(Tail(s)), Head(s))

unsorted(persona_dirs) == persona_dirs

sorted(persona_dirs) == InsertionSort(persona_dirs)

\* org_dir.is_dir() and org_dir.name not in ['templates']
IsMigratedOrg(o) == orgKind[o] = "dir" /\ OrgNames[o] \notin {"templates"}

\* The directories main collects
Candidates == {p \in Paths : IsMigratedOrg(OrgOf(p)) /\ tree[p].kind = "dir"}

\* iterdir() yields in arbitrary order: the orders in which the nested loops
\* may append the candidates (those of one organization together)
Listings(S) ==
    { s \in [1..Cardinality(S) -> S] :
        /\ \A x \in S : \E i \in 1..Cardinality(S) : s[i] = x
        /\ \A i, j, k \in 1..Cardinality(S) :
             (i < j /\ j < k /\ OrgOf(s[i]) = OrgOf(s[k])) => OrgOf(s[j]) = OrgOf(s[i]) }

\* The steps of create_skill_md, in the order of its statements
StepOrderDeleteBeforeMove == <<"check", "write", "delP", "list", "delA", "ret">>

StepOrderDeleteBeforeWrite == <<"check", "delP", "write", "list", "delA", "ret">>

StepOrder == <<"check", "write", "list", "delP", "delA", "ret">>

After(step) == StepOrder[(CHOOSE i \in 1..Len(StepOrder) : StepOrder[i] = step) + 1]

\* path.unlink()
UnlinkKeeps(slot) == slot

Unlink(slot) == <<>>

\* success_count after a call that returned ok
CountAlways(ok, n) == n + 1

Count(ok, n) == IF ok THEN n + 1 ELSE n

\* The value main returns
ExitStatusByCount(rootFound, success, total) ==
    IF rootFound /\ success = total THEN 0 ELSE 1

ExitStatus(rootFound, success, total) == IF rootFound THEN 0 ELSE 1

Event(p, op, name) == [path |-> p, op |-> op, name |-> name]

-----------------------------------------------------------------------------
(* Initial states *)

InitControl ==
    /\ pc = "main"
    /\ run = 1
    /\ todo = <<>>
    /\ idx = 0
    /\ cur = NoPath
    /\ success_count = 0
    /\ ret = FALSE
    /\ mainRet = <<>>
    /\ summary = <<>>
    /\ pending = {}
    /\ content = <<>>
    /\ metadata = <<>>
    /\ warned = {}
    /\ written = {}
    /\ visited = <<>>
    /\ succeeded = {}
    /\ migratedBefore = {}
    /\ events = <<>>

\* Either personas/ is missing, or it holds acme/ with two entries of any
\* shape (a plain file, or a persona directory), readme.md, templates/ with
\* one legacy persona directory and zeta/ with one.
Init ==
    /\ InitControl
    /\ rootExists \in BOOLEAN
    /\ IF rootExists
       THEN /\ orgKind = [o \in Orgs |-> IF OrgNames[o] = "readme.md" THEN "file" ELSE "dir"]
            /\ \E a1, a2 \in PersonaDirs \cup {FileEntry} :
                 tree = [p \in Paths |->
                           IF OrgNames[p[1]] = "acme" THEN (IF p[2] = 1 THEN a1 ELSE a2)
                           ELSE IF OrgNames[p[1]] = "templates" /\ p[2] = 1 THEN FullDir
                           ELSE IF OrgNames[p[1]] = "zeta" /\ p[2] = 1 THEN PlainDir
                           ELSE AbsentEntry]
       ELSE /\ orgKind = [o \in Orgs |-> "absent"]
            /\ tree = [p \in Paths |-> AbsentEntry]
    /\ tree0 = tree

-----------------------------------------------------------------------------
(* main *)

ctl == <<run, migratedBefore, tree0>>
fsys == <<rootExists, orgKind>>
call == <<pending, content, metadata>>

\* if not root.exists(): return 1
MainRootMissing ==
    /\ pc = "main"
    /\ ~rootExists
    /\ mainRet' = <<ExitStatus(FALSE, success_count, Len(todo))>>
    /\ pc' = "done"
    /\ UNCHANGED <<tree, todo, idx, cur, success_count, ret, summary, warned, written,
                   visited, succeeded, events>>
    /\ UNCHANGED <<ctl, fsys, call>>

\* The two nested loops that collect persona_dirs, and sorted(persona_dirs)
MainScan ==
    /\ pc = "main"
    /\ rootExists
    /\ \E listing \in Listings(Candidates) : todo' = sorted(listing)
    /\ idx' = 0
    /\ pc' = "loop"
    /\ UNCHANGED <<tree, cur, success_count, ret, mainRet, summary, warned, written,
                   visited, succeeded, events>>
    /\ UNCHANGED <<ctl, fsys, call>>

\* for persona_dir in sorted(persona_dirs): create_skill_md(persona_dir)
MainCall ==
    /\ pc = "loop"
    /\ idx < Len(todo)
    /\ cur' = todo[idx + 1]
    /\ visited' = Append(visited, todo[idx + 1])
    /\ pc' = StepOrder[1]
    /\ UNCHANGED <<tree, todo, idx, success_count, ret, mainRet, summary, warned,
                   written, succeeded, events>>
    /\ UNCHANGED <<ctl, fsys, call>>

\* if create_skill_md(persona_dir): success_count += 1
MainAfterCall ==
    /\ pc = "returned"
    /\ success_count' = Count(ret, success_count)
    /\ idx' = idx + 1
    /\ pc' = "loop"
    /\ UNCHANGED <<tree, todo, cur, ret, mainRet, summary, warned, written, visited,
                   succeeded, events>>
    /\ UNCHANGED <<ctl, fsys, call>>

\* The summary line, and return 0
MainSummary ==
    /\ pc = "loop"
    /\ idx = Len(todo)
    /\ summary' = <<[success |-> success_count, total |-> Len(todo)]>>
    /\ mainRet' = <<ExitStatus(TRUE, success_count, Len(todo))>>
    /\ pc' = "done"
    /\ UNCHANGED <<tree, todo, idx, cur, success_count, ret, warned, written, visited,
                   succeeded, events>>
    /\ UNCHANGED <<ctl, fsys, call>>

-----------------------------------------------------------------------------
(* create_skill_md(cur) *)

mainVars == <<todo, idx, success_count, mainRet, summary>>

Dir == tree[cur]

Log(op, name) == Append(events, Event(cur, op, name))

\* if not persona_md_path.exists(): print the warning, return False
CheckMissing ==
    /\ pc = "check"
    /\ ~Exists(Dir.persona)
    /\ warned' = warned \cup {cur}
    /\ ret' = FALSE
    /\ pc' = "returned"
    /\ UNCHANGED <<tree, cur, written, visited, succeeded, events>>
    /\ UNCHANGED <<ctl, fsys, call, mainVars>>

CheckPresent ==
    /\ pc = "check"
    /\ Exists(Dir.persona)
    /\ pc' = After("check")
    /\ UNCHANGED <<tree, cur, ret, warned, written, visited, succeeded, events>>
    /\ UNCHANGED <<ctl, fsys, call, mainVars>>

\* Read PERSONA.md (read_text raises when it is not there) and
\* AI_START_HERE.md, extract the metadata, build and write SKILL.md
WriteSkill ==
    /\ pc = "write"
    /\ IF Exists(Dir.persona)
       THEN LET persona_content == Dir.persona[1]
                ai_start_content == IF Exists(Dir.ai) THEN Dir.ai[1] ELSE <<>>
                meta == extract_metadata_from_persona(persona_content, BaseName(cur))
            IN  /\ content' = persona_content
                /\ metadata' = <<meta>>
                /\ tree' = [tree EXCEPT ![cur].skill =
                              <<skill_md_content(meta, persona_content, ai_start_content)>>]
                /\ written' = written \cup {cur}
                /\ events' = Log("write", "SKILL.md")
                /\ pc' = After("write")
       ELSE /\ pc' = "raised"
            /\ UNCHANGED <<tree, content, metadata, written, events>>
    /\ UNCHANGED <<cur, ret, warned, visited, succeeded, pending>>
    /\ UNCHANGED <<ctl, fsys, mainVars>>

\* The regular files of the directory other than the three known names
additional_files ==
    {n \in AuxNames : Exists(Dir.aux[n])}
        \cup (IF Dir.refsKind = "file" THEN {"references"} ELSE {})

\* if additional_files: (nothing to move)
ListNone ==
    /\ pc = "list"
    /\ additional_files = {}
    /\ pc' = After("list")
    /\ UNCHANGED <<tree, cur, ret, warned, written, visited, succeeded, events>>
    /\ UNCHANGED <<ctl, fsys, call, mainVars>>

\* ref_dir.mkdir(exist_ok=True)
ListMkdir ==
    /\ pc = "list"
    /\ additional_files # {}
    /\ Dir.refsKind # "file"
    /\ tree' = [tree EXCEPT ![cur].refsKind = "dir"]
    /\ events' = IF Dir.refsKind = "absent" THEN Log("mkdir", "references") ELSE events
    /\ pending' = additional_files
    /\ pc' = "move"
    /\ UNCHANGED <<cur, ret, warned, written, visited, succeeded, content, metadata>>
    /\ UNCHANGED <<ctl, fsys, mainVars>>

\* mkdir(exist_ok=True) raises FileExistsError when references is a regular file
ListMkdirRaises ==
    /\ pc = "list"
    /\ Dir.refsKind = "file"
    /\ pc' = "raised"
    /\ UNCHANGED <<tree, cur, ret, warned, written, visited, succeeded, events>>
    /\ UNCHANGED <<ctl, fsys, call, mainVars>>

Moved(n) ==
    [tree EXCEPT ![cur].refs[n] = Dir.aux[n], ![cur].aux[n] = <<>>]

AfterMove(n) == IF pending \ {n} = {} THEN After("list") ELSE "move"

\* file.rename(dest), dest not existing
MoveFile ==
    /\ pc = "move"
    /\ \E n \in pending :
         /\ ~Exists(Dir.refs[n])
         /\ tree' = Moved(n)
         /\ events' = Log("move", n)
         /\ pending' = pending \ {n}
         /\ pc' = AfterMove(n)
    /\ UNCHANGED <<cur, ret, warned, written, visited, succeeded, content, metadata>>
    /\ UNCHANGED <<ctl, fsys, mainVars>>

\* file.rename(dest), dest existing, on POSIX: dest is replaced silently
MoveReplaces ==
    /\ pc = "move"
    /\ \E n \in pending :
         /\ Exists(Dir.refs[n])
         /\ tree' = Moved(n)
         /\ events' = Log("move", n)
         /\ pending' = pending \ {n}
         /\ pc' = AfterMove(n)
    /\ UNCHANGED <<cur, ret, warned, written, visited, succeeded, content, metadata>>
    /\ UNCHANGED <<ctl, fsys, mainVars>>

\* file.rename(dest), dest existing, on Windows: FileExistsError
MoveRaises ==
    /\ pc = "move"
    /\ \E n \in pending : Exists(Dir.refs[n])
    /\ pc' = "raised"
    /\ UNCHANGED <<tree, cur, ret, warned, written, visited, succeeded, events>>
    /\ UNCHANGED <<ctl, fsys, call, mainVars>>

\* if persona_md_path.exists(): persona_md_path.unlink()
DeletePersona ==
    /\ pc = "delP"
    /\ IF Exists(Dir.persona)
       THEN /\ tree' = [tree EXCEPT ![cur].persona = Unlink(Dir.persona)]
            /\ events' = Log("delete", "PERSONA.md")
       ELSE UNCHANGED <<tree, events>>
    /\ pc' = After("delP")
    /\ UNCHANGED <<cur, ret, warned, written, visited, succeeded>>
    /\ UNCHANGED <<ctl, fsys, call, mainVars>>

\* if ai_start_path.exists(): ai_start_path.unlink()
DeleteAiStart ==
    /\ pc = "delA"
    /\ IF Exists(Dir.ai)
       THEN /\ tree' = [tree EXCEPT ![cur].ai = Unlink(Dir.ai)]
            /\ events' = Log("delete", "AI_START_HERE.md")
       ELSE UNCHANGED <<tree, events>>
    /\ pc' = After("delA")
    /\ UNCHANGED <<cur, ret, warned, written, visited, succeeded>>
    /\ UNCHANGED <<ctl, fsys, call, mainVars>>

\* return True
ReturnTrue ==
    /\ pc = "ret"
    /\ ret' = TRUE
    /\ succeeded' = succeeded \cup {cur}
    /\ pc' = "returned"
    /\ UNCHANGED <<tree, cur, warned, written, visited, events>>
    /\ UNCHANGED <<ctl, fsys, call, mainVars>>

\* The script is invoked again after it ended (main returned, or an
\* exception ended the process)
Rerun ==
    /\ pc \in {"done", "raised"}
    /\ run < MaxRuns
    /\ run' = run + 1
    /\ migratedBefore' = migratedBefore \cup succeeded
    /\ tree0' = tree
    /\ pc' = "main"
    /\ todo' = <<>>
    /\ idx' = 0
    /\ cur' = NoPath
    /\ success_count' = 0
    /\ ret' = FALSE
    /\ mainRet' = <<>>
    /\ summary' = <<>>
    /\ pending' = {}
    /\ content' = <<>>
    /\ metadata' = <<>>
    /\ warned' = {}
    /\ written' = {}
    /\ visited' = <<>>
    /\ succeeded' = {}
    /\ events' = <<>>
    /\ UNCHANGED <<tree, fsys>>

Next ==
    \/ MainRootMissing
    \/ MainScan
    \/ MainCall
    \/ MainAfterCall
    \/ MainSummary
    \/ CheckMissing
    \/ CheckPresent
    \/ WriteSkill
    \/ ListNone
    \/ ListMkdir
    \/ ListMkdirRaises
    \/ MoveFile
    \/ MoveReplaces
    \/ MoveRaises
    \/ DeletePersona
    \/ DeleteAiStart
    \/ ReturnTrue
    \/ Rerun

Spec == Init /\ [][Next]_vars

-----------------------------------------------------------------------------
(* The extractor alone, on every text of at most MaxLines lines *)

ScanAlphabet ==
    { BlankLine, FenceLine,
      Line("heading", 1, 0), Line("heading", 1, 12), Line("heading", 2, 9),
      Line("dash", 0, 8), Line("text", 0, 16), Line("text", 0, 300) }

Texts == UNION {[1..n -> ScanAlphabet] : n \in 0..MaxLines}

InitExtract ==
    /\ content \in Texts
    /\ metadata = <<>>
    /\ pc = "extract"
    /\ rootExists = FALSE
    /\ orgKind = [o \in Orgs |-> "absent"]
    /\ tree = [p \in Paths |-> AbsentEntry]
    /\ tree0 = tree
    /\ run = 1
    /\ todo = <<>>
    /\ idx = 0
    /\ cur = NoPath
    /\ success_count = 0
    /\ ret = FALSE
    /\ mainRet = <<>>
    /\ summary = <<>>
    /\ pending = {}
    /\ warned = {}
    /\ written = {}
    /\ visited = <<>>
    /\ succeeded = {}
    /\ migratedBefore = {}
    /\ events = <<>>

ExtractCall ==
    /\ pc = "extract"
    /\ metadata' = <<extract_metadata_from_persona(content, PersonaNames[1])>>
    /\ pc' = "extracted"
    /\ UNCHANGED <<rootExists, orgKind, tree, run, todo, idx, cur, success_count, ret,
                   mainRet, summary, pending, content, warned, written, visited,
                   succeeded, migratedBefore, events, tree0>>

NextExtract == ExtractCall

SpecExtract == InitExtract /\ [][NextExtract]_vars

-----------------------------------------------------------------------------
(* Properties *)

Visited == Range(visited)

\* C1: every directory for which create_skill_md returned True holds
\* SKILL.md, holds neither PERSONA.md nor AI_START_HERE.md, and the name of
\* the frontmatter written is the directory's base name, whatever else the
\* directory held before.
C1_MigratedLayout ==
    \A p \in succeeded :
        /\ Exists(tree[p].skill)
        /\ ~Exists(tree[p].persona)
        /\ ~Exists(tree[p].ai)
        /\ tree[p].skill[1].frontmatter.name = BaseName(p)

\* A call returned True on a directory that started with AI_START_HERE.md,
\* a stale SKILL.md, a references/ directory and an auxiliary file.
C1_Witness ==
    /\ pc = "returned"
    /\ ret
    /\ cur \in succeeded
    /\ Exists(tree0[cur].persona)
    /\ Exists(tree0[cur].ai)
    /\ Exists(tree0[cur].skill)
    /\ tree0[cur].refsKind = "dir"
    /\ Exists(tree0[cur].aux["notes.txt"])

\* C2: on a directory without PERSONA.md create_skill_md returns False in a
\* step that changes nothing on disk, and the directory stays as the run
\* found it; main goes on with the next directory without counting a
\* success; the summary's total counts every directory handed to
\* create_skill_md (all of them) and its success count only those that
\* returned True.
C2_MissingPersonaSkipped ==
    /\ [](\A p \in warned : tree[p] = tree0[p] /\ p \notin succeeded /\ p \in Visited)
    /\ [](summary # <<>> =>
            /\ visited = todo
            /\ summary[1].total = Len(visited)
            /\ summary[1].success = Cardinality(succeeded))
    /\ [][(pc = "check" /\ ~Exists(tree[cur].persona)) =>
            /\ tree' = tree
            /\ orgKind' = orgKind
            /\ rootExists' = rootExists
            /\ pc' = "returned"
            /\ ret' = FALSE
            /\ cur \in warned']_vars
    /\ [][(pc = "returned" /\ ~ret) =>
            /\ pc' = "loop"
            /\ idx' = idx + 1
            /\ todo' = todo
            /\ success_count' = success_count]_vars

\* The run ended with its summary after skipping a directory that holds
\* AI_START_HERE.md and an auxiliary file but no PERSONA.md, and migrating
\* a directory that comes after it.
C2_Witness ==
    /\ pc = "done"
    /\ summary # <<>>
    /\ \E p \in warned :
         /\ Exists(tree[p].ai)
         /\ Exists(tree[p].aux["notes.txt"])
         /\ \E q \in succeeded : PathLess(p, q)
    /\ summary[1].success < summary[1].total

\* C3: a file that already exists in references/ is never replaced by a
\* move: the move onto it raises and leaves it as it was.
C3_CollisionFailsLoudly ==
    [][\A p \in Paths : \A n \in AuxNames :
          Exists(tree[p].refs[n]) => tree'[p].refs[n] = tree[p].refs[n]]_vars

\* C4: a run that has ended, whether or not a step raised in some
\* directory, has handed every collected directory to create_skill_md and
\* printed its summary.
C4_ErrorsAreDirectoryScoped ==
    (pc \in {"done", "raised"} /\ rootExists) =>
        (Visited = Range(todo) /\ summary # <<>>)

\* C5: a directory that an earlier run migrated successfully is reported as
\* missing PERSONA.md by a later run, which returns False for it without
\* raising, does not count it as a success and leaves it exactly as it was.
C5_SecondRunSkips ==
    /\ [](\A p \in migratedBefore :
            /\ tree[p] = tree0[p]
            /\ p \notin succeeded
            /\ p \notin written
            /\ ~(pc = "raised" /\ cur = p)
            /\ (pc = "returned" /\ cur = p) => (~ret /\ p \in warned))
    /\ [][\A p \in migratedBefore : tree'[p] = tree[p]]_vars

\* A later run has returned False for a directory the first run migrated,
\* which holds a SKILL.md and a file under references/.
C5_Witness ==
    /\ run > 1
    /\ pc = "returned"
    /\ cur \in migratedBefore
    /\ ~ret
    /\ Exists(tree[cur].skill)
    /\ Exists(tree[cur].refs["notes.txt"])

\* C6: main returns 1 exactly when personas/ does not exist, and then
\* nothing on disk has changed; whenever main returns with personas/
\* existing it returns 0, whatever the directories returned.
C6_ExitStatus ==
    /\ mainRet # <<>> =>
         /\ mainRet[1] \in {0, 1}
         /\ mainRet[1] = 1 <=> ~rootExists
         /\ mainRet[1] = 1 => (tree = tree0 /\ events = <<>>)
    /\ (pc = "done" /\ rootExists) => mainRet = <<0>>
    /\ pc = "done" <=> mainRet # <<>>

\* main returned 0 although some directory returned False and none but one
\* succeeded.
C6_Witness ==
    /\ pc = "done"
    /\ rootExists
    /\ mainRet = <<0>>
    /\ warned # {}
    /\ summary[1].success < summary[1].total

\* The second-level directories of the first-level directories other than
\* templates, as the run found them
ExpectedDirs ==
    {p \in Paths : /\ orgKind[OrgOf(p)] = "dir"
                   /\ OrgNames[OrgOf(p)] # "templates"
                   /\ tree0[p].kind = "dir"}

\* C7: the directories handed to create_skill_md are second-level
\* directories outside templates, each at most once and in sorted path
\* order without skipping any, and all of them once main prints its
\* summary; no step changes anything under templates, any entry that is
\* not a directory, or any directory other than the one being migrated.
C7_ScanFrame ==
    /\ [](/\ Visited \subseteq ExpectedDirs
          /\ \A i, j \in 1..Len(visited) : i < j => PathLess(visited[i], visited[j])
          /\ \A p \in ExpectedDirs : \A q \in Visited : PathLess(p, q) => p \in Visited
          /\ summary # <<>> => Visited = ExpectedDirs)
    /\ [][/\ rootExists' = rootExists
          /\ orgKind' = orgKind
          /\ \A p \in Paths :
               (OrgNames[OrgOf(p)] = "templates" \/ tree[p].kind # "dir" \/ p # cur)
                   => tree'[p] = tree[p]]_vars

\* The run ended after migrating acme/builder and zeta/analyst, in that
\* order, acme/analyst being a plain file.
C7_Witness ==
    /\ pc = "done"
    /\ visited = <<<<1, 2>>, <<4, 1>>>>
    /\ tree[<<1, 1>>].kind = "file"
    /\ succeeded = Visited
    /\ tree[<<3, 1>>] = FullDir

Rank(e) ==
    IF e.op = "write" THEN 1
    ELSE IF e.op \in {"mkdir", "move"} THEN 2
    ELSE IF e.name = "PERSONA.md" THEN 3
    ELSE 4

\* C8: in one directory SKILL.md is written before any auxiliary file is
\* moved, every auxiliary file is moved before PERSONA.md is deleted, and
\* PERSONA.md is deleted before AI_START_HERE.md; the mutations of one
\* directory are not interleaved with those of another, and a step touches
\* only the directory of the running call.
C8_StepOrder ==
    /\ [](\A i, j \in 1..Len(events) :
            i < j =>
              /\ events[i].path = events[j].path => Rank(events[i]) <= Rank(events[j])
              /\ events[i].path # events[j].path =>
                   \A k \in j..Len(events) : events[k].path # events[i].path)
    /\ [][\A p \in Paths :
            /\ tree'[p] # tree[p] => p = cur
            /\ tree'[p].aux # tree[p].aux =>
                 (p \in written /\ Exists(tree[p].persona))
            /\ (Exists(tree[p].persona) /\ ~Exists(tree'[p].persona)) =>
                 /\ p \in written
                 /\ \A n \in AuxNames : ~Exists(tree[p].aux[n])
                 /\ Exists(tree[p].ai) = Exists(tree0[p].ai)
            /\ (Exists(tree[p].ai) /\ ~Exists(tree'[p].ai)) =>
                 ~Exists(tree[p].persona)]_vars

\* A second directory has been fully migrated after a first one that had
\* two auxiliary files and an AI_START_HERE.md.
C8_Witness ==
    /\ pc = "returned"
    /\ ret
    /\ \E i \in 1..Len(events) :
         /\ events[i].path # cur
         /\ events[i].op = "delete"
         /\ events[i].name = "AI_START_HERE.md"
         /\ \E j, k \in 1..i : j # k /\ events[j].op = "move" /\ events[k].op = "move"
                               /\ events[j].path = events[i].path
                               /\ events[k].path = events[i].path
    /\ events[Len(events)].path = cur

\* C10: no step leaves a directory that held PERSONA.md or SKILL.md with
\* neither, and a step deletes PERSONA.md only from a directory whose
\* SKILL.md was written in this run and is there.
C10_NoLoss ==
    [][\A p \in Paths :
          /\ (Exists(tree[p].persona) \/ Exists(tree[p].skill)) =>
                (Exists(tree'[p].persona) \/ Exists(tree'[p].skill))
          /\ (Exists(tree[p].persona) /\ ~Exists(tree'[p].persona)) =>
                (p \in written /\ Exists(tree[p].skill) /\ Exists(tree'[p].skill))]_vars

\* PERSONA.md has just been deleted from a directory that had no SKILL.md
\* before the run.
C10_Witness ==
    /\ pc = "delA"
    /\ ~Exists(tree0[cur].skill)
    /\ Exists(tree0[cur].persona)
    /\ ~Exists(tree[cur].persona)
    /\ Exists(tree[cur].skill)
    /\ cur \in written

-----------------------------------------------------------------------------
(* Properties of the extractor *)

\* A line at which accumulation stops once it has started
Stops(l) == IsBlank(l) \/ IsHeading(l) \/ IsDash(l)

\* C9: the description is joined from one contiguous run of lines, none of
\* them blank, a heading or a list item, that ends where the text ends or
\* at the first blank, heading or list-item line after it started (so no
\* line after such a line is part of it), cut to 500 characters.
C9_DescriptionIsFirstRun ==
    pc = "extracted" =>
        LET lines == StripText(content)
            d     == metadata[1].description
            n     == Len(d.parts)
        IN  /\ \A i \in 1..n : ~Stops(lines[d.parts[i]])
            /\ \A i \in 1..(n - 1) : d.parts[i + 1] = d.parts[i] + 1
            /\ \A i \in 1..n : \A k \in 1..Len(lines) :
                 (d.parts[1] < k /\ Stops(lines[k])) => d.parts[i] < k
            /\ d.length = Min(JoinLen(lines, d.parts), MaxDescription)

====
